---- MODULE Spec2Model ----
(***************************************************************************)
(* SafeguardX threat-detection router                                      *)
(* (src/backend/app/Routes/threat_detect.py).                              *)
(*                                                                         *)
(* State: the three module-level lists (active_threats, threat_history,    *)
(* system_alerts), the background tasks FastAPI has been handed and the    *)
(* event-loop clock.  What a handler returns is an operator on the state   *)
(* it is called in and on its arguments.                                   *)
(*                                                                         *)
(* Every request handler is an `async def` without an await, so a handler  *)
(* is one atomic action.  The two background coroutines give up the event  *)
(* loop at each `await asyncio.sleep(..)`, so each is cut into one action  *)
(* per stretch of code between two awaits.  Spec lets these stretches run  *)
(* in any order: a sleep delays its coroutine by at least its argument,    *)
(* and a background task starts some time after its response was sent.     *)
(* Spec follows few threats through all of their tasks, StoreSpec more     *)
(* threats with fewer tasks between them.  ScoreSpec calls the scoring     *)
(* function alone, on every log entry of a grid.  TimedSpec runs the       *)
(* stretches at the times the sleeps give: a task starts when add_task is  *)
(* called and a sleep lasts exactly its argument.                          *)
(*                                                                         *)
(* Scores are Python floats (IEEE 754 binary64), written as integers that  *)
(* keep every bit: the hundredths and, below them, what the float is above *)
(* or under its decimal value.  Each `+=` of detect_anomaly rounds to the  *)
(* nearest float, ties to even, as the hardware does, so 0.1 + 0.3 + 0.2   *)
(* is 0.6000000000000001 and is > 0.6.  Threat fields no handler or task   *)
(* reads back (timestamp, source, confidence, description, the alert's     *)
(* message) are left out.                                                  *)
(***************************************************************************)
EXTENDS Integers, Sequences, FiniteSets, TLC

VARIABLES
    active_threats,   \* list of threat dicts, in creation order
    threat_history,   \* list of references (positions in active_threats) to the same dicts
    system_alerts,    \* list of alert dicts
    tasks,            \* background tasks in the order add_task was called
    now,              \* event-loop time, in units of half a second
    log_entry,        \* ScoreSpec: the LogEntry detect_anomaly is called with
    returned_score    \* ScoreSpec: what detect_anomaly returned for it

vars == <<active_threats, threat_history, system_alerts, tasks, now, log_entry, returned_score>>

----------------------------------------------------------------------------
\* Bounds of the model.

\* Spec, FairSpec: no threat is created once this many exist, no background
\* task is scheduled once this many have been.
MaxThreats == 1
MaxTasks == 2
\* StoreSpec: the same two bounds, more threats and fewer tasks.
MaxStoreThreats == 2
MaxStoreTasks == 1
\* TimedSpec: the same two bounds, and the time the clock stops at.
MaxTimedThreats == 1
MaxTimedTasks == 2
MaxTime == 8
\* Largest limit given to /threats/history.
MaxLimit == 3

\* A dict key that has not been set: a timestamp, a string.  An unset list
\* or formatted string is << >> (the code stores neither empty).
Absent == -1
NoValue == "<absent>"

----------------------------------------------------------------------------
\* Strings as sequences of characters, so that lower() and `in` are computed.

UpperToLower ==
    [c \in {"A", "B", "C", "D", "E", "F", "G", "H", "I", "J", "K", "L", "M",
            "N", "O", "P", "Q", "R", "S", "T", "U", "V", "W", "X", "Y", "Z"} |->
        CASE c = "A" -> "a" [] c = "B" -> "b" [] c = "C" -> "c" [] c = "D" -> "d"
          [] c = "E" -> "e" [] c = "F" -> "f" [] c = "G" -> "g" [] c = "H" -> "h"
          [] c = "I" -> "i" [] c = "J" -> "j" [] c = "K" -> "k" [] c = "L" -> "l"
          [] c = "M" -> "m" [] c = "N" -> "n" [] c = "O" -> "o" [] c = "P" -> "p"
          [] c = "Q" -> "q" [] c = "R" -> "r" [] c = "S" -> "s" [] c = "T" -> "t"
          [] c = "U" -> "u" [] c = "V" -> "v" [] c = "W" -> "w" [] c = "X" -> "x"
          [] c = "Y" -> "y" [] c = "Z" -> "z"]

\* str.lower()
Lower(s) ==
    [i \in 1..Len(s) |-> IF s[i] \in DOMAIN UpperToLower THEN UpperToLower[s[i]] ELSE s[i]]

\* `pattern in text`
Contains(text, pattern) ==
    \E i \in 0..(Len(text) - Len(pattern)) :
        \A j \in 1..Len(pattern) : text[i + j] = pattern[j]

\* AnomalyDetector.risk_patterns
risk_patterns == <<
    <<"f","a","i","l","e","d"," ","l","o","g","i","n">>,
    <<"b","r","u","t","e"," ","f","o","r","c","e">>,
    <<"s","q","l"," ","i","n","j","e","c","t","i","o","n">>,
    <<"m","a","l","w","a","r","e">>,
    <<"d","d","o","s">>,
    <<"p","o","r","t"," ","s","c","a","n">>,
    <<"p","r","i","v","i","l","e","g","e"," ","e","s","c","a","l","a","t","i","o","n">>,
    <<"d","a","t","a"," ","e","x","f","i","l","t","r","a","t","i","o","n">> >>

\* Log messages: no keyword, one keyword in mixed case, one keyword three
\* times, two keywords, three keywords, one keyword in upper case.
MsgLogin == <<"u","s","e","r"," ","l","o","g","g","e","d"," ","i","n">>
MsgDDoS == <<"D","D","o","S"," ","f","l","o","o","d">>
MsgRepeat == <<"d","d","o","s"," ","D","D","O","S"," ","d","d","o","s">>
MsgTwo == <<"M","a","l","w","a","r","e"," ","a","f","t","e","r"," ","p","o","r","t"," ","s","c","a","n">>
MsgThree == <<"s","q","l"," ","i","n","j","e","c","t","i","o","n",","," ",
              "b","r","u","t","e"," ","f","o","r","c","e",","," ","d","d","o","s">>
MsgUpper == <<"S","Q","L"," ","I","N","J","E","C","T","I","O","N"," ","H","A","L","T","E","D">>
AllMessages == {MsgLogin, MsgDDoS, MsgRepeat, MsgTwo, MsgThree, MsgUpper}

\* The messages /analyze is given.
Messages == {MsgLogin, MsgRepeat}

\* LogEntry.level: the levels /analyze is given.
Levels == {"CRITICAL", "WARN"}

\* random.uniform(0, 0.2), in hundredths: with the levels and messages above
\* the sums come out at, just above and well away from 0.6, 0.7 and 0.9.
NoiseValues == {0, 10, 19}

\* The levels detect_anomaly is given: the keys of level_scores and one that is
\* not a key.
AllLevels == {"CRITICAL", "ERROR", "WARN", "INFO", "DEBUG"}

\* random.uniform(0, 0.2): the largest hundredth below 0.2.
MaxNoise == 19

\* The log entries detect_anomaly is given, with the noise drawn for each.
LogEntries == [level : AllLevels, message : AllMessages, noise : 0..MaxNoise]

\* No call of detect_anomaly is under way.
NoEntry == [level |-> NoValue, message |-> << >>, noise |-> 0]

\* random.choice(xs) returns xs[pick] for a random position: the positions drawn.
Picks == {1, 2, 3}

\* ThreatResponse.action: the three playbooks and a name that is no playbook.
Actions == {"auto_mitigate", "investigate", "contain", "escalate"}

----------------------------------------------------------------------------
\* AnomalyDetector

\* The positions of text where pattern begins.
Occurrences(text, pattern) ==
    {i \in 0..(Len(text) - Len(pattern)) : \A j \in 1..Len(pattern) : text[i + j] = pattern[j]}

\* A Python float x is written as the integer h * Scale + d: h is x in
\* hundredths, rounded to the nearest integer, and d is what x is above h / 100,
\* in units of 2^-59 / 100, so that x = (h * 2^59 + d) / (100 * 2^59) exactly.
\* Every float of the program is a multiple of 2^-59 and d stays far below
\* Scale / 2, so the integers are ordered as the floats are and the exact sum
\* of two floats is the sum of their integers.
Scale == 1000000

Hundredths(x) == (x + Scale \div 2) \div Scale

Excess(x) == x - Hundredths(x) * Scale

RECURSIVE TwoPowMod(_, _)
\* 2^n modulo m
TwoPowMod(n, m) == IF n = 0 THEN 1 % m ELSE (2 * TwoPowMod(n - 1, m)) % m

\* 2^59 modulo 200 * 2^j, for each spacing 2^j
TwoTo59Mod == [j \in 0..8 |-> TwoPowMod(59, 200 * 2^j)]

\* The binade of the real number x: neighbouring floats around x are
\* 2^j * 2^-59 apart, j = 8 for x in [2, 4) down to j = 0 for x below 2^-6.
Binade(x) ==
    LET h == Hundredths(x)
        d == Excess(x)
        reached == {j \in 0..8 : 128 * h > 100 * 2^j \/ (128 * h = 100 * 2^j /\ d >= 0)}
    IN  IF reached = {} THEN 0 ELSE CHOOSE j \in reached : \A i \in reached : i <= j

\* The float nearest to the real number x, ties to the even mantissa: the
\* rounding of every float literal and of every float addition.
RoundToFloat(x) ==
    LET j == Binade(x)
        grid == 100 * 2^j
        above2 == (Hundredths(x) * TwoTo59Mod[j] + Excess(x) + 2000 * grid) % (2 * grid)
        above == above2 % grid
    IN  IF 2 * above < grid THEN x - above
        ELSE IF 2 * above > grid THEN x + (grid - above)
        ELSE IF above2 < grid THEN x - above
        ELSE x + (grid - above)

\* The float a literal with two decimals denotes: FloatOf[60] is 0.6.
FloatOf == [h \in 0..100 |-> RoundToFloat(h * Scale)]

\* a + b on floats
FloatAdd(a, b) == RoundToFloat(a + b)

RECURSIVE AddTimes(_, _, _)
\* score += y, n times
AddTimes(score, y, n) == IF n = 0 THEN score ELSE FloatAdd(AddTimes(score, y, n - 1), y)

RECURSIVE PatternScorePerOccurrence(_, _)
\* Variant: 0.3 for every occurrence of a pattern.
PatternScorePerOccurrence(message_lower, k) ==
    IF k = 0 THEN FloatOf[10]
    ELSE AddTimes(PatternScorePerOccurrence(message_lower, k - 1), FloatOf[30],
                  Cardinality(Occurrences(message_lower, risk_patterns[k])))

RECURSIVE PatternScore(_, _)
\* score = 0.1 and the loop over the first k risk_patterns: score += 0.3 for
\* every pattern found in the message
PatternScore(message_lower, k) ==
    IF k = 0 THEN FloatOf[10]
    ELSE IF Contains(message_lower, risk_patterns[k])
         THEN FloatAdd(PatternScore(message_lower, k - 1), FloatOf[30])
         ELSE PatternScore(message_lower, k - 1)

\* level_scores.get(level, 0.1)
LevelScore(level) ==
    CASE level = "CRITICAL" -> FloatOf[40]
      [] level = "ERROR" -> FloatOf[30]
      [] level = "WARN" -> FloatOf[20]
      [] level = "INFO" -> FloatOf[10]
      [] OTHER -> FloatOf[10]

Min(a, b) == IF a < b THEN a ELSE b

\* The score after the loop for each message of the model, computed once.
KeywordScore == [message \in AllMessages |-> PatternScore(Lower(message), Len(risk_patterns))]

\* The body of detect_anomaly; noise is what random.uniform(0, 0.2) returned,
\* in hundredths.
AnomalyScore(level, message, noise) ==
    LET after_loop == IF message \in AllMessages THEN KeywordScore[message]
                      ELSE PatternScore(Lower(message), Len(risk_patterns))
    IN  Min(FloatAdd(FloatAdd(after_loop, LevelScore(level)), FloatOf[noise]), FloatOf[100])

\* The scores of the log entries of the model, computed once.
AnomalyScores ==
    [level \in AllLevels |-> [message \in AllMessages |-> [noise \in 0..MaxNoise |->
        AnomalyScore(level, message, noise)]]]

detect_anomaly(level, message, noise) ==
    IF level \in AllLevels /\ message \in AllMessages /\ noise \in 0..MaxNoise
    THEN AnomalyScores[level][message][noise]
    ELSE AnomalyScore(level, message, noise)

\* random.choice(xs), the random position being pick
Choice(xs, pick) == xs[IF pick > Len(xs) THEN Len(xs) ELSE pick]

\* Variant: a medium threat asks for immediate action too.
classify_threat_MediumImmediate(score, pick) ==
    IF score > FloatOf[90] THEN
        [severity |-> "critical",
         category |-> Choice(<<"APT", "Zero-day", "Data Breach">>, pick),
         risk_level |-> 5, immediate_action |-> TRUE]
    ELSE IF score > FloatOf[70] THEN
        [severity |-> "high",
         category |-> Choice(<<"DDoS", "Malware", "Brute Force">>, pick),
         risk_level |-> 4, immediate_action |-> TRUE]
    ELSE IF score > FloatOf[50] THEN
        [severity |-> "medium",
         category |-> Choice(<<"Phishing", "Policy Violation">>, pick),
         risk_level |-> 3, immediate_action |-> TRUE]
    ELSE
        [severity |-> "low", category |-> "Informational",
         risk_level |-> 1, immediate_action |-> FALSE]

\* Variant: critical from 0.8.
classify_threat_CriticalFrom80(score, pick) ==
    IF score > FloatOf[80] THEN
        [severity |-> "critical",
         category |-> Choice(<<"APT", "Zero-day", "Data Breach">>, pick),
         risk_level |-> 5, immediate_action |-> TRUE]
    ELSE IF score > FloatOf[70] THEN
        [severity |-> "high",
         category |-> Choice(<<"DDoS", "Malware", "Brute Force">>, pick),
         risk_level |-> 4, immediate_action |-> TRUE]
    ELSE IF score > FloatOf[50] THEN
        [severity |-> "medium",
         category |-> Choice(<<"Phishing", "Policy Violation">>, pick),
         risk_level |-> 3, immediate_action |-> FALSE]
    ELSE
        [severity |-> "low", category |-> "Informational",
         risk_level |-> 1, immediate_action |-> FALSE]

classify_threat(score, pick) ==
    IF score > FloatOf[90] THEN
        [severity |-> "critical",
         category |-> Choice(<<"APT", "Zero-day", "Data Breach">>, pick),
         risk_level |-> 5, immediate_action |-> TRUE]
    ELSE IF score > FloatOf[70] THEN
        [severity |-> "high",
         category |-> Choice(<<"DDoS", "Malware", "Brute Force">>, pick),
         risk_level |-> 4, immediate_action |-> TRUE]
    ELSE IF score > FloatOf[50] THEN
        [severity |-> "medium",
         category |-> Choice(<<"Phishing", "Policy Violation">>, pick),
         risk_level |-> 3, immediate_action |-> FALSE]
    ELSE
        [severity |-> "low", category |-> "Informational",
         risk_level |-> 1, immediate_action |-> FALSE]

----------------------------------------------------------------------------
\* Helpers for the lists.

\* next((x for x in xs if x['id'] == id), None): the position of the first
\* match, 0 for None.
FindById(xs, id) ==
    IF \E i \in DOMAIN xs : xs[i].id = id
    THEN CHOOSE i \in DOMAIN xs : xs[i].id = id /\ \A j \in 1..(i - 1) : xs[j].id # id
    ELSE 0

\* Python's xs[start:]
SliceFrom(xs, start) ==
    LET n == Len(xs)
        first == IF start < 0 THEN (IF n + start < 0 THEN 0 ELSE n + start)
                 ELSE (IF start > n THEN n ELSE start)
    IN  SubSeq(xs, first + 1, n)

\* The dicts threat_history refers to.
HistoryThreats == [k \in DOMAIN threat_history |-> active_threats[threat_history[k]]]

\* background_tasks.add_task(fn, threat_id[, action]): the coroutine waits for
\* its next resumption, due at time wake; threat is its local variable of that
\* name (a position in active_threats, 0 before the lookup and for None).
Task(fn, threat_id, action_type, pc, wake) ==
    [fn |-> fn, threat_id |-> threat_id, action_type |-> action_type, pc |-> pc, wake |-> wake,
     threat |-> 0]

\* The module's three lists and the tasks handed to BackgroundTasks, as one value.
Stores ==
    [active_threats |-> active_threats, threat_history |-> threat_history,
     system_alerts |-> system_alerts, tasks |-> tasks]

\* A handler leaves them as `after`.
Store(after) ==
    /\ active_threats' = after.active_threats
    /\ threat_history' = after.threat_history
    /\ system_alerts' = after.system_alerts
    /\ tasks' = after.tasks

\* asyncio.sleep() arguments, in half seconds.
SleepBeforeMitigate == 2
SleepRemediation == 1
SleepBeforeResolve == 4
SleepPlaybook == 6

----------------------------------------------------------------------------
\* POST /analyze

\* Variant: a threat for every score.
ThreatDetectedAlways(anomaly_score) == anomaly_score > FloatOf[0]

\* Variant: the 0.5 of classify_threat used as the threshold.
ThreatDetectedAtMedium(anomaly_score) == anomaly_score > FloatOf[50]

\* `if anomaly_score > 0.6`
ThreatDetected(anomaly_score) == anomaly_score > FloatOf[60]

\* Variant: ids counted from 0.
NewThreatIdFromZero == Len(active_threats)

\* 'id': len(active_threats) + 1
NewThreatId == Len(active_threats) + 1

\* 'id': len(system_alerts) + 1
NewAlertId == Len(system_alerts) + 1

\* Variant: log ids counted from 0.
NewLogIdFromZero == Len(threat_history)

\* log_record['id']
NewLogId == Len(threat_history) + 1

NewThreat(classification) ==
    [id |-> NewThreatId,
     log_id |-> NewLogId,
     severity |-> classification.severity,
     category |-> classification.category,
     status |-> "active",
     risk_level |-> classification.risk_level,
     response_initiated |-> Absent,
     response_type |-> NoValue,
     auto_response_started |-> Absent,
     response_actions |-> << >>,
     playbook_executed |-> NoValue,
     resolved_timestamp |-> Absent,
     resolution_timestamp |-> Absent,
     resolution_summary |-> << >>]

\* Variant: the alert names the id after the threat's.
NewAlertForNextThreat(threat, classification) ==
    [id |-> NewAlertId,
     threat_id |-> threat.id + 1,
     severity |-> threat.severity,
     read |-> FALSE,
     read_timestamp |-> Absent,
     actions_required |-> classification.immediate_action]

NewAlert(threat, classification) ==
    [id |-> NewAlertId,
     threat_id |-> threat.id,
     severity |-> threat.severity,
     read |-> FALSE,
     read_timestamp |-> Absent,
     actions_required |-> classification.immediate_action]

\* response_data: log_id, anomaly_score, and whether 'threat_detected' was added
analyze_response(level, message, noise) ==
    LET anomaly_score == detect_anomaly(level, message, noise)
    IN  [log_id |-> NewLogId,
         anomaly_score |-> anomaly_score,
         status |-> "processed",
         threat_detected |-> ThreatDetected(anomaly_score)]

\* The three lists and the scheduled tasks when analyze_log returns, the
\* detector having returned anomaly_score.
AfterScore(anomaly_score, pick) ==
    LET classification == classify_threat(anomaly_score, pick)
        threat == NewThreat(classification)
    IN  IF ThreatDetected(anomaly_score)
        THEN [active_threats |-> Append(active_threats, threat),
              threat_history |-> Append(threat_history, Len(active_threats) + 1),
              system_alerts |-> Append(system_alerts, NewAlert(threat, classification)),
              tasks |-> IF classification.immediate_action
                        THEN Append(tasks, Task("initiate_automated_response", threat.id,
                                                NoValue, "sleep1", now + SleepBeforeMitigate))
                        ELSE tasks]
        ELSE Stores

\* The three lists and the scheduled tasks when analyze_log returns.
AfterAnalyze(level, message, noise, pick) ==
    AfterScore(detect_anomaly(level, message, noise), pick)

analyze_log(level, message, noise, pick) ==
    /\ Store(AfterAnalyze(level, message, noise, pick))
    /\ UNCHANGED <<now, log_entry, returned_score>>

Analyze ==
    \E level \in Levels, message \in Messages, noise \in NoiseValues, pick \in Picks :
        analyze_log(level, message, noise, pick)

----------------------------------------------------------------------------
\* GET /threats/active, GET /threats/history, GET /alerts, GET /dashboard/metrics
\* read the lists and change nothing: each is an operator on the state.

get_active_threats ==
    [threats |-> SelectSeq(active_threats, LAMBDA t : t.status = "active"),
     count |-> Len(SelectSeq(active_threats, LAMBDA t : t.status = "active"))]

get_threat_history(limit) ==
    [threats |-> SliceFrom(HistoryThreats, -limit),
     total |-> Len(threat_history)]

get_alerts(unread_only) ==
    [alerts |-> IF unread_only THEN SelectSeq(system_alerts, LAMBDA a : ~a.read)
                ELSE system_alerts,
     unread_count |-> Len(SelectSeq(system_alerts, LAMBDA a : ~a.read))]

\* len([t for t in active_threats if t['severity'] == severity and t['status'] == 'active'])
ThreatLevel(severity) ==
    Cardinality({i \in DOMAIN active_threats :
                    active_threats[i].severity = severity /\ active_threats[i].status = "active"})

\* Variant: every unresolved threat counts as active.
get_dashboard_metrics_unresolved ==
    [active_threats |-> Cardinality({i \in DOMAIN active_threats :
                                        active_threats[i].status # "resolved"}),
     unread_alerts |-> Cardinality({i \in DOMAIN system_alerts : ~system_alerts[i].read}),
     threat_levels |-> [critical |-> ThreatLevel("critical"), high |-> ThreatLevel("high"),
                        medium |-> ThreatLevel("medium"), low |-> ThreatLevel("low")],
     system_status |-> "operational"]

get_dashboard_metrics ==
    [active_threats |-> Cardinality({i \in DOMAIN active_threats :
                                        active_threats[i].status = "active"}),
     unread_alerts |-> Cardinality({i \in DOMAIN system_alerts : ~system_alerts[i].read}),
     threat_levels |-> [critical |-> ThreatLevel("critical"), high |-> ThreatLevel("high"),
                        medium |-> ThreatLevel("medium"), low |-> ThreatLevel("low")],
     system_status |-> "operational"]

----------------------------------------------------------------------------
\* POST /threats/{threat_id}/respond

\* Variant: no status is refused.
MayRespondAlways(threat) == TRUE

\* Variant: only a resolved threat is refused.
MayRespondUnlessResolved(threat) == threat.status # "resolved"

\* the handler goes on only past `if threat['status'] != 'active': raise`
MayRespond(threat) == threat.status = "active"

\* Variant: the requested action is not recorded.
RespondStartedNoType(threat, action) ==
    [threat EXCEPT !.status = "responding", !.response_initiated = now]

\* threat['status'] = 'responding'; response_initiated; response_type
RespondStarted(threat, action) ==
    [threat EXCEPT !.status = "responding",
                   !.response_initiated = now,
                   !.response_type = action]

\* The status code /respond answers with: the two HTTPExceptions, else 200.
respond_code(threat_id) ==
    LET i == FindById(active_threats, threat_id)
    IN  IF i = 0 THEN 404
        ELSE IF ~MayRespond(active_threats[i]) THEN 400
        ELSE 200

\* The three lists and the scheduled tasks when respond_to_threat returns or raises.
AfterRespond(threat_id, action) ==
    LET i == FindById(active_threats, threat_id)
    IN  IF respond_code(threat_id) # 200
        THEN Stores
        ELSE [Stores EXCEPT
                 !.active_threats = [active_threats EXCEPT ![i] = RespondStarted(@, action)],
                 !.tasks = Append(tasks, Task("execute_response_playbook", threat_id,
                                              action, "start", now))]

respond_to_threat(threat_id, action) ==
    /\ Store(AfterRespond(threat_id, action))
    /\ UNCHANGED <<now, log_entry, returned_score>>

\* The ids requests name: every id in use and one that is not.  A refused
\* call does not read the action, so one action stands for all there.
Respond ==
    \E threat_id \in 1..(Len(active_threats) + 1) :
        \E action \in (IF respond_code(threat_id) = 200 THEN Actions ELSE {"auto_mitigate"}) :
            respond_to_threat(threat_id, action)

----------------------------------------------------------------------------
\* PUT /alerts/{alert_id}/read

\* Variant: the flag is toggled.
MarkedReadToggle(alert) == [alert EXCEPT !.read = ~@, !.read_timestamp = now]

\* alert['read'] = True; alert['read_timestamp'] = now
MarkedRead(alert) == [alert EXCEPT !.read = TRUE, !.read_timestamp = now]

\* The status code /alerts/{id}/read answers with.
mark_alert_read_code(alert_id) ==
    IF FindById(system_alerts, alert_id) = 0 THEN 404 ELSE 200

\* The three lists and the scheduled tasks when mark_alert_read returns or raises.
AfterMarkRead(alert_id) ==
    LET i == FindById(system_alerts, alert_id)
    IN  IF mark_alert_read_code(alert_id) = 404
        THEN Stores
        ELSE [Stores EXCEPT !.system_alerts = [system_alerts EXCEPT ![i] = MarkedRead(@)]]

mark_alert_read(alert_id) ==
    /\ Store(AfterMarkRead(alert_id))
    /\ UNCHANGED <<now, log_entry, returned_score>>

MarkAlertRead ==
    \E alert_id \in 1..(Len(system_alerts) + 1) : mark_alert_read(alert_id)

----------------------------------------------------------------------------
\* Background task initiate_automated_response(threat_id)

\* threat['status'] = 'mitigating'; threat['auto_response_started'] = now
Mitigated(threat) ==
    [threat EXCEPT !.status = "mitigating", !.auto_response_started = now]

\* The helper the category selects: where the coroutine waits next.
RemediationFor(category) ==
    IF category \in {"DDoS", "Brute Force"} THEN "block_ip_address"
    ELSE IF category \in {"Malware", "APT"} THEN "isolate_system"
    ELSE IF category = "Phishing" THEN "quarantine_email"
    ELSE "sleep2"

\* The string each helper appends.
RemediationString(helper) ==
    CASE helper = "block_ip_address" -> "IP address blocked at firewall"
      [] helper = "isolate_system" -> "System isolated from network"
      [] helper = "quarantine_email" -> "Malicious email quarantined"

\* threat.setdefault('response_actions', []).append(..)
Remediated(threat, helper) ==
    [threat EXCEPT !.response_actions = Append(@, RemediationString(helper))]

\* Variant: the status is written, the timestamp is not.
AutoResolvedNoTimestamp(threat) == [threat EXCEPT !.status = "resolved"]

\* Variant: the timestamp is written, the status is not.
AutoResolvedNoStatus(threat) == [threat EXCEPT !.resolved_timestamp = now]

\* threat['status'] = 'resolved'; threat['resolved_timestamp'] = now
AutoResolved(threat) ==
    [threat EXCEPT !.status = "resolved", !.resolved_timestamp = now]

\* after sleep(1): the lookup, the write of mitigating, up to the next await
AutoMitigate(i) ==
    LET t == FindById(active_threats, tasks[i].threat_id)
        next == RemediationFor(active_threats[t].category)
    IN  /\ tasks[i].fn = "initiate_automated_response"
        /\ tasks[i].pc = "sleep1"
        /\ IF t = 0
           THEN /\ tasks' = [tasks EXCEPT ![i].pc = "done"]
                /\ UNCHANGED active_threats
           ELSE /\ active_threats' = [active_threats EXCEPT ![t] = Mitigated(@)]
                /\ tasks' = [tasks EXCEPT ![i].threat = t,
                                          ![i].pc = next,
                                          ![i].wake = now + (IF next = "sleep2"
                                                             THEN SleepBeforeResolve
                                                             ELSE SleepRemediation)]
        /\ UNCHANGED <<threat_history, system_alerts, now>>

\* after the helper's sleep(0.5): the append, up to sleep(2)
Remediate(i) ==
    /\ tasks[i].fn = "initiate_automated_response"
    /\ tasks[i].pc \in {"block_ip_address", "isolate_system", "quarantine_email"}
    /\ active_threats' = [active_threats EXCEPT ![tasks[i].threat] = Remediated(@, tasks[i].pc)]
    /\ tasks' = [tasks EXCEPT ![i].pc = "sleep2", ![i].wake = now + SleepBeforeResolve]
    /\ UNCHANGED <<threat_history, system_alerts, now>>

\* after sleep(2): the write of resolved
AutoResolve(i) ==
    /\ tasks[i].fn = "initiate_automated_response"
    /\ tasks[i].pc = "sleep2"
    /\ active_threats' = [active_threats EXCEPT ![tasks[i].threat] = AutoResolved(@)]
    /\ tasks' = [tasks EXCEPT ![i].pc = "done"]
    /\ UNCHANGED <<threat_history, system_alerts, now>>

----------------------------------------------------------------------------
\* Background task execute_response_playbook(threat_id, action_type)

\* playbook_actions.get(action_type, ['Default response'])
playbook_actions(action_type) ==
    CASE action_type = "auto_mitigate" ->
            <<"Block suspicious IP", "Isolate affected system", "Notify security team">>
      [] action_type = "investigate" ->
            <<"Collect forensic data", "Analyze threat vectors", "Generate report">>
      [] action_type = "contain" ->
            <<"Network segmentation", "Access restrictions", "Monitor communications">>
      [] OTHER -> <<"Default response">>

\* threat['response_actions'] = actions; threat['playbook_executed'] = action_type
PlaybookStarted(threat, action_type) ==
    [threat EXCEPT !.response_actions = playbook_actions(action_type),
                   !.playbook_executed = action_type]

\* f"Threat resolved using {action_type} playbook", as its three pieces
ResolutionSummary(action_type) == <<"Threat resolved using ", action_type, " playbook">>

\* Variant: the summary names the default playbook whatever was run.
PlaybookResolvedDefaultName(threat, action_type) ==
    [threat EXCEPT !.status = "resolved",
                   !.resolution_timestamp = now,
                   !.resolution_summary = ResolutionSummary("auto_mitigate")]

\* threat['status'] = 'resolved'; resolution_timestamp; resolution_summary
PlaybookResolved(threat, action_type) ==
    [threat EXCEPT !.status = "resolved",
                   !.resolution_timestamp = now,
                   !.resolution_summary = ResolutionSummary(action_type)]

\* from the start of the coroutine to sleep(3)
PlaybookStart(i) ==
    LET t == FindById(active_threats, tasks[i].threat_id)
    IN  /\ tasks[i].fn = "execute_response_playbook"
        /\ tasks[i].pc = "start"
        /\ IF t = 0
           THEN /\ tasks' = [tasks EXCEPT ![i].pc = "done"]
                /\ UNCHANGED active_threats
           ELSE /\ active_threats' =
                       [active_threats EXCEPT ![t] = PlaybookStarted(@, tasks[i].action_type)]
                /\ tasks' = [tasks EXCEPT ![i].threat = t,
                                          ![i].pc = "sleep3",
                                          ![i].wake = now + SleepPlaybook]
        /\ UNCHANGED <<threat_history, system_alerts, now>>

\* after sleep(3): the write of resolved
PlaybookResolve(i) ==
    /\ tasks[i].fn = "execute_response_playbook"
    /\ tasks[i].pc = "sleep3"
    /\ active_threats' =
           [active_threats EXCEPT ![tasks[i].threat] = PlaybookResolved(@, tasks[i].action_type)]
    /\ tasks' = [tasks EXCEPT ![i].pc = "done"]
    /\ UNCHANGED <<threat_history, system_alerts, now>>

\* The next stretch of task i, whichever coroutine it is.
RunTask(i) ==
    /\ i \in DOMAIN tasks
    /\ \/ AutoMitigate(i)
       \/ Remediate(i)
       \/ AutoResolve(i)
       \/ PlaybookStart(i)
       \/ PlaybookResolve(i)
    /\ UNCHANGED <<log_entry, returned_score>>

----------------------------------------------------------------------------
\* Specifications

Init ==
    /\ active_threats = << >>
    /\ threat_history = << >>
    /\ system_alerts = << >>
    /\ tasks = << >>
    /\ now = 0
    /\ log_entry = NoEntry
    /\ returned_score = Absent

\* The handlers and the tasks, within bounds: a request that would create
\* one threat or schedule one task too many is not served.
NextWithin(maxThreats, maxTasks) ==
    \/ Len(active_threats) < maxThreats /\ Analyze /\ Len(tasks') <= maxTasks
    \/ Respond /\ Len(tasks') <= maxTasks
    \/ MarkAlertRead
    \/ \E i \in DOMAIN tasks : RunTask(i)

Next == NextWithin(MaxThreats, MaxTasks)

\* Every interleaving of the handlers and of the stretches of the tasks.
Spec == Init /\ [][Next]_vars

\* The event loop does not stay idle for ever while a coroutine is due.
FairSpec == Spec /\ WF_vars(\E i \in 1..MaxTasks : RunTask(i))

\* detector.detect_anomaly(log_entry)
Detect ==
    /\ log_entry # NoEntry
    /\ returned_score = Absent
    /\ returned_score' = detect_anomaly(log_entry.level, log_entry.message, log_entry.noise)
    /\ UNCHANGED <<active_threats, threat_history, system_alerts, tasks, now, log_entry>>

ScoreInit ==
    /\ active_threats = << >>
    /\ threat_history = << >>
    /\ system_alerts = << >>
    /\ tasks = << >>
    /\ now = 0
    /\ log_entry \in LogEntries
    /\ returned_score = Absent

ScoreNext == Detect

\* One call of detect_anomaly, for every log entry of the grid.
ScoreSpec == ScoreInit /\ [][ScoreNext]_vars

StoreNext == NextWithin(MaxStoreThreats, MaxStoreTasks)

\* Variant: a sleep returns at once.
DueAtOnce(i) == TRUE

\* `await asyncio.sleep(d)` of task i has returned: d has passed.
Due(i) == tasks[i].wake <= now

\* Half a second passes, once every coroutine that is due has run.
Tick ==
    /\ now < MaxTime
    /\ \A i \in DOMAIN tasks : tasks[i].pc # "done" => ~Due(i)
    /\ now' = now + 1
    /\ UNCHANGED <<active_threats, threat_history, system_alerts, tasks, log_entry,
                   returned_score>>

\* The requests arrive at any time, the tasks run when they are due.
TimedNext ==
    \/ Len(active_threats) < MaxTimedThreats /\ Analyze /\ Len(tasks') <= MaxTimedTasks
    \/ Respond /\ Len(tasks') <= MaxTimedTasks
    \/ MarkAlertRead
    \/ \E i \in DOMAIN tasks : Due(i) /\ RunTask(i)
    \/ Tick

\* The interleavings the fixed delays leave.
TimedSpec == Init /\ [][TimedNext]_vars

\* The same, over more threats with fewer tasks.
StoreSpec == Init /\ [][StoreNext]_vars

----------------------------------------------------------------------------
\* The threat lifecycle

Ids == 1..MaxThreats

Exists(id) == id \in DOMAIN active_threats

\* active -> responding -> mitigating -> resolved
Rank(status) ==
    CASE status = "active" -> 0
      [] status = "responding" -> 1
      [] status = "mitigating" -> 2
      [] status = "resolved" -> 3

\* A task of function fn was scheduled for threat id.
Scheduled(fn, id) == \E i \in DOMAIN tasks : tasks[i].fn = fn /\ tasks[i].threat_id = id

\* What the formulas read for an id no threat has yet.
NoThreat ==
    [id |-> 0, log_id |-> 0, severity |-> "none", category |-> "none", status |-> "none",
     risk_level |-> 0, response_initiated |-> Absent, response_type |-> NoValue,
     auto_response_started |-> Absent, response_actions |-> << >>,
     playbook_executed |-> NoValue, resolved_timestamp |-> Absent,
     resolution_timestamp |-> Absent, resolution_summary |-> << >>]

Threat(id) == IF Exists(id) THEN active_threats[id] ELSE NoThreat

\* /respond succeeded for threat id at some time.
Responded(id) == Threat(id).response_type # NoValue

----------------------------------------------------------------------------
\* Claims

\* Some threat / alert has this id.
HasThreat(id) == \E i \in DOMAIN active_threats : active_threats[i].id = id
HasAlert(id) == \E i \in DOMAIN system_alerts : system_alerts[i].id = id

\* The largest id of a list, 0 for the empty list.
MaxId(xs) ==
    IF xs = << >> THEN 0
    ELSE CHOOSE m \in {xs[i].id : i \in DOMAIN xs} : \A i \in DOMAIN xs : xs[i].id <= m

\* xs is the first Len(xs) elements of ys.
IsPrefix(xs, ys) == Len(xs) <= Len(ys) /\ SubSeq(ys, 1, Len(xs)) = xs

\* The ids a request may name: every id in use and one that is not.
ThreatIds == 1..(Len(active_threats) + 1)
AlertIds == 1..(Len(system_alerts) + 1)

\* C1: a threat's status only moves forward along active -> responding ->
\* mitigating -> resolved, in every interleaving of the handlers and the steps
\* of the two tasks; a resolved threat stays resolved.
C1_StatusMonotonic ==
    [][\A i \in DOMAIN active_threats :
          Rank(active_threats'[i].status) >= Rank(active_threats[i].status)]_vars

\* C2: the threats' ids are 1, 2, 3, .. in creation order, and so are the alerts'
\* ids; an id once given is never changed and no threat or alert disappears.
C2_IdsIncreasing ==
    /\ [](/\ \A i \in DOMAIN active_threats : active_threats[i].id = i
          /\ \A i \in DOMAIN system_alerts : system_alerts[i].id = i)
    /\ [][/\ Len(active_threats') >= Len(active_threats)
          /\ Len(system_alerts') >= Len(system_alerts)
          /\ \A i \in DOMAIN active_threats : active_threats'[i].id = active_threats[i].id
          /\ \A i \in DOMAIN system_alerts : system_alerts'[i].id = system_alerts[i].id]_vars

\* Two threats and their alerts were created while a background task was
\* between two of its awaits.
C2_Witness ==
    /\ Len(active_threats) = 2
    /\ Len(system_alerts) = 2
    /\ \E i \in DOMAIN tasks : tasks[i].pc \notin {"sleep1", "start", "done"}

\* C3: /respond answers 404 exactly when no threat has the id and 400 exactly
\* when the threat exists and is not active; with either answer the call
\* changes no threat and schedules no task.
C3_RespondRejects ==
    \A id \in ThreatIds :
        /\ respond_code(id) = 404 <=> ~HasThreat(id)
        /\ respond_code(id) = 400 <=> (HasThreat(id) /\ Threat(id).status # "active")
        /\ respond_code(id) \in {404, 400} =>
              \A action \in Actions :
                  /\ AfterRespond(id, action).active_threats = active_threats
                  /\ AfterRespond(id, action).tasks = tasks

\* /respond is refused with 400 for a resolved threat and with 404 for an id
\* no threat has.
C3_Witness ==
    /\ \E id \in ThreatIds : Threat(id).status = "resolved" /\ respond_code(id) = 400
    /\ \E id \in ThreatIds : ~HasThreat(id) /\ respond_code(id) = 404

\* C4: a threat with the automated-response task scheduled and for which no
\* /respond is ever issued is eventually resolved with resolved_timestamp set,
\* its status goes to resolved only from mitigating, and it stays resolved.
C4_AutoResolves ==
    /\ \A id \in Ids :
          Scheduled("initiate_automated_response", id)
             ~> (Responded(id)
                 \/ /\ Threat(id).status = "resolved"
                    /\ Threat(id).resolved_timestamp # Absent
                    /\ Threat(id).auto_response_started # Absent)
    /\ [][\A id \in Ids :
            (Scheduled("initiate_automated_response", id) /\ ~Responded(id)') =>
               /\ (Threat(id).status # "resolved" /\ Threat(id).status' = "resolved")
                     => Threat(id).status = "mitigating"
               /\ Threat(id).status = "resolved" => Threat(id).status' = "resolved"]_vars


\* The automated-response task alone resolved a threat.
C4_Witness ==
    \E id \in Ids :
        /\ ~Responded(id)
        /\ Threat(id).status = "resolved"
        /\ Threat(id).resolved_timestamp # Absent

\* C5: /analyze reports and creates a threat exactly when the score is > 0.6;
\* then it adds one active threat and one unread alert, each with the id after
\* the largest so far; otherwise threats, alerts and tasks are unchanged.
C5_AnalyzeCreates ==
    LET last_threat == MaxId(active_threats)
        last_alert == MaxId(system_alerts)
    IN  \A level \in Levels, message \in Messages, noise \in NoiseValues :
          LET response == analyze_response(level, message, noise)
              anomaly_score == response.anomaly_score
          IN  /\ response.threat_detected <=> anomaly_score > FloatOf[60]
              /\ \A pick \in Picks :
                    LET after == AfterScore(anomaly_score, pick)
                        threat == after.active_threats[Len(after.active_threats)]
                        alert == after.system_alerts[Len(after.system_alerts)]
                    IN  IF anomaly_score > FloatOf[60]
                        THEN /\ after.active_threats = Append(active_threats, threat)
                             /\ threat.status = "active"
                             /\ threat.id = last_threat + 1
                             /\ after.system_alerts = Append(system_alerts, alert)
                             /\ alert.read = FALSE
                             /\ alert.id = last_alert + 1
                        ELSE after = Stores

\* /analyze created a second threat with its alert, after the first alert was read.
C5_Witness ==
    /\ Len(active_threats) = 2
    /\ Len(system_alerts) = 2
    /\ active_threats[2].status = "active"
    /\ system_alerts[1].read /\ ~system_alerts[2].read

\* C6: a successful /respond finds the threat active, leaves it responding
\* with response_initiated set and response_type the requested action, and
\* appends one playbook task that has not run: the threat is not resolved
\* when the handler returns.
C6_RespondStarts ==
    \A id \in ThreatIds, action \in Actions :
        respond_code(id) = 200 =>
           LET threats == AfterRespond(id, action).active_threats
               scheduled == AfterRespond(id, action).tasks
           IN  /\ Threat(id).status = "active"
               /\ threats[id].status = "responding"
               /\ threats[id].response_initiated # Absent
               /\ threats[id].response_type = action
               /\ threats[id].resolution_timestamp = Absent
               /\ threats[id].playbook_executed = NoValue
               /\ \A i \in DOMAIN active_threats : i # id => threats[i] = active_threats[i]
               /\ Len(scheduled) = Len(tasks) + 1
               /\ SubSeq(scheduled, 1, Len(tasks)) = tasks
               /\ scheduled[Len(scheduled)].fn = "execute_response_playbook"
               /\ scheduled[Len(scheduled)].threat_id = id
               /\ scheduled[Len(scheduled)].action_type = action
               /\ scheduled[Len(scheduled)].pc = "start"

\* /respond has succeeded: the threat is responding, its playbook has not started.
C6_Witness ==
    \E id \in DOMAIN active_threats :
        /\ Threat(id).status = "responding"
        /\ Threat(id).response_type = "investigate"
        /\ \E i \in DOMAIN tasks :
              /\ tasks[i].fn = "execute_response_playbook"
              /\ tasks[i].threat_id = id
              /\ tasks[i].pc = "start"

\* The action list the claim gives for an action type.
FixedActions(action_type) ==
    CASE action_type = "auto_mitigate" ->
            <<"Block suspicious IP", "Isolate affected system", "Notify security team">>
      [] action_type = "investigate" ->
            <<"Collect forensic data", "Analyze threat vectors", "Generate report">>
      [] action_type = "contain" ->
            <<"Network segmentation", "Access restrictions", "Monitor communications">>
      [] OTHER -> <<"Default response">>

\* C7: after a successful /respond with action type A the threat is in the
\* end resolved with resolution_timestamp set and a summary naming A; the
\* playbook task sets response_actions to the fixed action list of A, which
\* response_actions still begins with when the threat is resolved.
C7_PlaybookResolves ==
    /\ \A id \in Ids :
          Responded(id)
             ~> /\ Threat(id).status = "resolved"
                /\ Threat(id).resolution_timestamp # Absent
                /\ Threat(id).resolution_summary =
                      <<"Threat resolved using ", Threat(id).response_type, " playbook">>
                /\ Threat(id).playbook_executed = Threat(id).response_type
                /\ IsPrefix(FixedActions(Threat(id).response_type), Threat(id).response_actions)
    /\ [][\A i \in DOMAIN active_threats :
            Responded(i) => active_threats'[i].response_type = active_threats[i].response_type]_vars
    /\ [][\A i \in DOMAIN active_threats :
            active_threats'[i].playbook_executed # active_threats[i].playbook_executed =>
               /\ active_threats'[i].playbook_executed = active_threats[i].response_type
               /\ active_threats'[i].response_actions =
                     FixedActions(active_threats[i].response_type)]_vars

\* A playbook that is no named playbook resolved a threat.
C7_Witness ==
    \E id \in Ids :
        /\ Threat(id).response_type = "escalate"
        /\ Threat(id).status = "resolved"
        /\ Threat(id).resolution_timestamp # Absent
        /\ Threat(id).response_actions = <<"Default response">>

\* C8: /alerts/{id}/read answers 404, changing nothing, exactly when no alert
\* has the id; otherwise it answers 200 and the alert is read afterwards,
\* also when it was read before; no step takes a read flag back to false.
C8_MarkRead ==
    /\ [](\A id \in AlertIds :
            /\ mark_alert_read_code(id) = 404 <=> ~HasAlert(id)
            /\ mark_alert_read_code(id) # 404 => mark_alert_read_code(id) = 200)
    /\ [](\A id \in AlertIds :
            IF mark_alert_read_code(id) = 404
            THEN AfterMarkRead(id) = Stores
            ELSE /\ AfterMarkRead(id).system_alerts[id].read
                 /\ \A i \in DOMAIN system_alerts :
                       i # id => AfterMarkRead(id).system_alerts[i] = system_alerts[i])
    /\ [][\A i \in DOMAIN system_alerts : system_alerts[i].read => system_alerts'[i].read]_vars

\* One alert was marked read, another is unread, and a third id is unknown.
C8_Witness ==
    /\ Len(system_alerts) = 2
    /\ \E i \in DOMAIN system_alerts : system_alerts[i].read /\ mark_alert_read_code(i) = 200
    /\ \E i \in DOMAIN system_alerts : ~system_alerts[i].read
    /\ mark_alert_read_code(3) = 404

\* C9: for every limit N >= 0, /threats/history returns the min(N, size) most
\* recent threats in insertion order, and the number of threats as total.
C9_HistoryLimit ==
    \A N \in 0..MaxLimit :
        LET size == Len(threat_history)
            k == Min(N, size)
        IN  /\ get_threat_history(N).threats = SubSeq(active_threats, size - k + 1, size)
            /\ Len(get_threat_history(N).threats) <= N
            /\ get_threat_history(N).total = Len(active_threats)

\* C10: the dashboard's active_threats is the count of /threats/active, the
\* number of threats whose status is exactly active.
C10_ActiveCount ==
    /\ get_dashboard_metrics.active_threats = get_active_threats.count
    /\ get_active_threats.count = Len(get_active_threats.threats)
    /\ \A i \in DOMAIN get_active_threats.threats :
          get_active_threats.threats[i].status = "active"
    /\ get_active_threats.count =
          Cardinality({id \in DOMAIN active_threats : Threat(id).status = "active"})

\* One threat is active and another has left active.
C10_Witness ==
    /\ get_active_threats.count = 1
    /\ \E id \in DOMAIN active_threats :
          Threat(id).status \in {"responding", "mitigating", "resolved"}

\* The threats an alert refers to.
ThreatsOf(alert) == {i \in DOMAIN active_threats : active_threats[i].id = alert.threat_id}

\* C11: in every state each alert's threat_id is the id of exactly one threat
\* of the store, whose severity is the alert's; that threat is in the store
\* in every later state.
C11_AlertReferences ==
    /\ [](\A a \in DOMAIN system_alerts :
            /\ Cardinality(ThreatsOf(system_alerts[a])) = 1
            /\ \A i \in ThreatsOf(system_alerts[a]) :
                  active_threats[i].severity = system_alerts[a].severity)
    /\ [][\A a \in DOMAIN system_alerts :
            \A i \in ThreatsOf(system_alerts[a]) :
                /\ i \in DOMAIN active_threats'
                /\ active_threats'[i].id = active_threats[i].id]_vars

\* Two alerts of different severities, the threat of the first resolved.
C11_Witness ==
    /\ Len(system_alerts) = 2
    /\ system_alerts[1].severity # system_alerts[2].severity
    /\ \E i \in ThreatsOf(system_alerts[1]) : active_threats[i].status = "resolved"
    /\ ThreatsOf(system_alerts[2]) # {}

\* C12: a threat /analyze creates from score s is critical, risk 5, of {APT,
\* Zero-day, Data Breach} for s > 0.9; high, risk 4, of {DDoS, Malware, Brute
\* Force} for 0.7 < s <= 0.9; medium, risk 3, of {Phishing, Policy Violation}
\* for 0.6 < s <= 0.7.  The automated-response task is scheduled, and the
\* alert's actions_required is true, exactly for critical and high.
C12_Classification ==
    \A level \in Levels, message \in Messages, noise \in NoiseValues, pick \in Picks :
        LET s == analyze_response(level, message, noise).anomaly_score
            after == AfterScore(s, pick)
            threat == after.active_threats[Len(after.active_threats)]
            alert == after.system_alerts[Len(after.system_alerts)]
            task == after.tasks[Len(after.tasks)]
            scheduled == /\ after.tasks = Append(tasks, task)
                         /\ task.fn = "initiate_automated_response"
                         /\ task.threat_id = threat.id
                         /\ task.pc = "sleep1"
        IN  s > FloatOf[60] =>
              /\ s > FloatOf[90] =>
                    /\ threat.severity = "critical" /\ threat.risk_level = 5
                    /\ threat.category \in {"APT", "Zero-day", "Data Breach"}
              /\ (FloatOf[70] < s /\ s <= FloatOf[90]) =>
                    /\ threat.severity = "high" /\ threat.risk_level = 4
                    /\ threat.category \in {"DDoS", "Malware", "Brute Force"}
              /\ (FloatOf[60] < s /\ s <= FloatOf[70]) =>
                    /\ threat.severity = "medium" /\ threat.risk_level = 3
                    /\ threat.category \in {"Phishing", "Policy Violation"}
              /\ IF threat.severity \in {"critical", "high"}
                 THEN scheduled /\ alert.actions_required
                 ELSE after.tasks = tasks /\ ~alert.actions_required

\* /analyze created a critical threat: its task waits to start, its alert
\* asks for action.
C12_Witness ==
    /\ Len(active_threats) = 1
    /\ active_threats[1].severity = "critical"
    /\ active_threats[1].category = "Data Breach"
    /\ Scheduled("initiate_automated_response", 1)
    /\ system_alerts[1].actions_required

\* The number of distinct risk keywords occurring in the lower-cased message.
KeywordsIn(message) ==
    Cardinality({k \in DOMAIN risk_patterns : Occurrences(Lower(message), risk_patterns[k]) # {}})

\* 0.4 / 0.3 / 0.2 for CRITICAL / ERROR / WARN, 0.1 for anything else.
LevelIncrement(level) ==
    IF level = "CRITICAL" THEN 40
    ELSE IF level = "ERROR" THEN 30
    ELSE IF level = "WARN" THEN 20
    ELSE 10

\* C13: for every level, message and noise in [0, 0.2), detect_anomaly returns
\* min(1.0, 0.1 + 0.3 * k + levelIncrement + noise), k the number of distinct
\* risk keywords in the lower-cased message: the float returned is that
\* number in hundredths, and off it by less than two of the steps between
\* neighbouring floats below 1.0; the score lies in [0, 1].
C13_ScoreFormula ==
    returned_score # Absent =>
       /\ Hundredths(returned_score) =
             Min(100, 10 + 30 * KeywordsIn(log_entry.message)
                         + LevelIncrement(log_entry.level) + log_entry.noise)
       /\ -2 * 64 * 100 < Excess(returned_score) /\ Excess(returned_score) < 2 * 64 * 100
       /\ FloatOf[0] <= returned_score /\ returned_score <= FloatOf[100]
       /\ log_entry.message = MsgLogin => KeywordsIn(log_entry.message) = 0
       /\ log_entry.message \in {MsgDDoS, MsgRepeat} => KeywordsIn(log_entry.message) = 1
       /\ log_entry.message = MsgTwo => KeywordsIn(log_entry.message) = 2
       /\ log_entry.message = MsgThree => KeywordsIn(log_entry.message) = 3
       /\ log_entry.message = MsgUpper => KeywordsIn(log_entry.message) = 1

\* Three keywords at level CRITICAL: the sum is above 1.0 and the score is 1.0.
C13_Witness ==
    /\ log_entry.message = MsgThree
    /\ log_entry.level = "CRITICAL"
    /\ log_entry.noise = MaxNoise
    /\ returned_score = FloatOf[100]

\* Both tasks were scheduled for threat id.
BothScheduled(id) ==
    /\ Scheduled("initiate_automated_response", id)
    /\ Scheduled("execute_response_playbook", id)

\* C14: when the automated-response task and a playbook task are both
\* scheduled for a threat, then in every interleaving of their steps the
\* threat is from some time on resolved for ever, with resolved_timestamp and
\* resolution_timestamp both set.
C14_BothResolve ==
    \A id \in Ids :
        BothScheduled(id)
           ~> [](/\ Threat(id).status = "resolved"
                 /\ Threat(id).resolved_timestamp # Absent
                 /\ Threat(id).resolution_timestamp # Absent)

\* Both tasks of a threat have run to their ends.
C14_Witness ==
    \E id \in Ids :
        /\ BothScheduled(id)
        /\ \A i \in DOMAIN tasks : tasks[i].threat_id = id => tasks[i].pc = "done"
        /\ Threat(id).status = "resolved"
        /\ Threat(id).resolved_timestamp # Absent
        /\ Threat(id).resolution_timestamp # Absent

\* The strings of a list.
Range(xs) == {xs[i] : i \in DOMAIN xs}

\* The automated-response task of threat id has returned.
AutoFinished(id) ==
    \E i \in DOMAIN tasks :
        /\ tasks[i].fn = "initiate_automated_response"
        /\ tasks[i].threat_id = id
        /\ tasks[i].pc = "done"

\* C15: once the automated-response task has finished for a threat,
\* response_actions contains the remediation string of the threat's category
\* (none for a category without one), in every interleaving with a playbook
\* task for the same threat.
C15_RemediationKept ==
    \A id \in DOMAIN active_threats :
        AutoFinished(id) =>
           LET category == active_threats[id].category
               actions == Range(active_threats[id].response_actions)
           IN  /\ category \in {"DDoS", "Brute Force"}
                     => "IP address blocked at firewall" \in actions
               /\ category \in {"Malware", "APT"}
                     => "System isolated from network" \in actions
               /\ category = "Phishing"
                     => "Malicious email quarantined" \in actions
               /\ category \notin {"DDoS", "Brute Force", "Malware", "APT", "Phishing"}
                     => actions \cap {"IP address blocked at firewall",
                                      "System isolated from network",
                                      "Malicious email quarantined"} = {}

\* The playbook tasks scheduled for threat id.
PlaybookTasks(id) ==
    {i \in DOMAIN tasks :
        tasks[i].fn = "execute_response_playbook" /\ tasks[i].threat_id = id}

\* C16: at most one playbook task is ever scheduled per threat and /respond
\* succeeds at most once per threat: after a success the call is refused, and
\* no step takes a status back to active.
C16_OneRespond ==
    /\ [](\A id \in DOMAIN active_threats :
            /\ Cardinality(PlaybookTasks(id)) <= 1
            /\ Responded(id) <=> PlaybookTasks(id) # {}
            /\ Responded(id) => respond_code(id) = 400)
    /\ [][\A i \in DOMAIN active_threats :
            active_threats[i].status # "active" => active_threats'[i].status # "active"]_vars

\* The one playbook task of a threat has returned and /respond is refused,
\* with room in the model for a second task.
C16_Witness ==
    \E id \in DOMAIN active_threats :
        /\ Cardinality(PlaybookTasks(id)) = 1
        /\ \A i \in PlaybookTasks(id) : tasks[i].pc = "done"
        /\ Len(tasks) < MaxTasks
        /\ respond_code(id) = 400

\* The automated-response task of threat id has not yet written mitigating.
AutoNotStarted(id) ==
    \E i \in DOMAIN tasks :
        /\ tasks[i].fn = "initiate_automated_response"
        /\ tasks[i].threat_id = id
        /\ tasks[i].pc = "sleep1"

\* C17: with the fixed delays and the automated-response task starting when
\* the threat is created, no write of resolved comes before the task's write
\* of mitigating, and no threat goes from resolved to mitigating.
C17_TimedOrder ==
    /\ [](\A id \in DOMAIN active_threats :
            AutoNotStarted(id) =>
               /\ active_threats[id].status # "resolved"
               /\ active_threats[id].resolved_timestamp = Absent
               /\ active_threats[id].resolution_timestamp = Absent)
    /\ [][\A id \in DOMAIN active_threats :
            active_threats[id].status = "resolved"
               => active_threats'[id].status # "mitigating"]_vars

\* The playbook resolved a threat after the automated-response task wrote
\* mitigating and before it wrote resolved.
C17_Witness ==
    \E id \in DOMAIN active_threats :
        /\ active_threats[id].resolved_timestamp # Absent
        /\ active_threats[id].auto_response_started < active_threats[id].resolution_timestamp
        /\ active_threats[id].resolution_timestamp < active_threats[id].resolved_timestamp

\* Threat id is medium and no /respond has succeeded for it.
MediumUntouched(id) == Threat(id).severity = "medium" /\ ~Responded(id)

\* C18: a medium threat has no task scheduled at creation; until a /respond
\* for it succeeds it stays active and none of its fields changes, so without
\* such a call it is never resolved.
C18_MediumWaits ==
    /\ [](\A id \in DOMAIN active_threats :
            MediumUntouched(id) =>
               /\ active_threats[id].status = "active"
               /\ \A i \in DOMAIN tasks : tasks[i].threat_id # id)
    /\ [][\A id \in DOMAIN active_threats :
            (MediumUntouched(id) /\ active_threats'[id].response_type = NoValue)
               => active_threats'[id] = active_threats[id]]_vars

\* A medium threat is still as it was created while a later threat has been
\* resolved by its task.
C18_Witness ==
    /\ Len(active_threats) = 2
    /\ MediumUntouched(1)
    /\ active_threats[1].status = "active"
    /\ active_threats[1].response_actions = << >>
    /\ active_threats[2].status = "resolved"
    /\ system_alerts[1].read

\* C19: no threat of the store has severity low or risk_level 1; the
\* dashboard's threat_levels.low is 0 and critical + high + medium is its
\* active_threats.
C19_NoLowThreat ==
    /\ \A i \in DOMAIN active_threats :
          /\ active_threats[i].severity \in {"medium", "high", "critical"}
          /\ active_threats[i].risk_level \in {3, 4, 5}
    /\ get_dashboard_metrics.threat_levels.low = 0
    /\ get_dashboard_metrics.threat_levels.critical
          + get_dashboard_metrics.threat_levels.high
          + get_dashboard_metrics.threat_levels.medium = get_dashboard_metrics.active_threats

\* The dashboard counts an active medium threat and not a resolved high one.
C19_Witness ==
    /\ get_dashboard_metrics.threat_levels.medium = 1
    /\ get_dashboard_metrics.threat_levels.high = 0
    /\ get_dashboard_metrics.active_threats = 1
    /\ \E i \in DOMAIN active_threats :
          active_threats[i].severity = "high" /\ active_threats[i].status = "resolved"

\* C20: the log id /analyze returns is 1 + the number of threats created so
\* far, whatever the entry: it advances only in a step that creates a threat,
\* calls that create none return the same id, and every threat's log_id is
\* its own id.
C20_LogId ==
    /\ [](/\ \A level \in Levels, message \in Messages, noise \in NoiseValues :
                analyze_response(level, message, noise).log_id = Len(active_threats) + 1
          /\ \A i \in DOMAIN active_threats : active_threats[i].log_id = active_threats[i].id)
    /\ [][NewLogId' # NewLogId =>
            /\ NewLogId' = NewLogId + 1
            /\ Len(active_threats') = Len(active_threats) + 1]_vars

\* After two threats, an entry that creates no threat is answered log id 3.
C20_Witness ==
    /\ Len(active_threats) = 2
    /\ active_threats[2].log_id = 2
    /\ \E level \in Levels, message \in Messages, noise \in NoiseValues :
          /\ ~analyze_response(level, message, noise).threat_detected
          /\ analyze_response(level, message, noise).log_id = 3

====
